---------------------------- MODULE Spec2Model ----------------------------
(***************************************************************************)
(* score.js: read a file of "<score>:<json record>" lines, validate every  *)
(* line, print the `count` highest scoring records.                        *)
(*                                                                         *)
(* Strings are sequences of one-character strings, so that split, trim,    *)
(* indexOf, substring, parseInt and JSON.parse are computed character by   *)
(* character as the JavaScript built-ins compute them.                     *)
(***************************************************************************)
EXTENDS Integers, Sequences, FiniteSets

(***************************************************************************)
(* Bounds of the model.                                                    *)
(***************************************************************************)
\* most lines (newline-separated segments) of the input file
MaxLines == 3
\* direct calls of getHighestRecords take a count in -MaxCount..MaxCount
MaxCount == 3

(***************************************************************************)
(* JavaScript string built-ins.                                            *)
(***************************************************************************)
WhiteSpace == {" ", "\t", "\r", "\n"}
Digits == {"0", "1", "2", "3", "4", "5", "6", "7", "8", "9"}

DigitVal(c) ==
  CASE c = "0" -> 0 [] c = "1" -> 1 [] c = "2" -> 2 [] c = "3" -> 3
    [] c = "4" -> 4 [] c = "5" -> 5 [] c = "6" -> 6 [] c = "7" -> 7
    [] c = "8" -> 8 [] c = "9" -> 9

Min(a, b) == IF a < b THEN a ELSE b
Max(a, b) == IF a > b THEN a ELSE b

\* s with the first n characters dropped
Drop(s, n) == SubSeq(s, n + 1, Len(s))

\* number of leading characters of s (from position p, 1-based) that lie in set
RECURSIVE SpanFrom(_, _, _)
SpanFrom(s, p, set) ==
  IF p <= Len(s) /\ s[p] \in set THEN 1 + SpanFrom(s, p + 1, set) ELSE 0

\* number of trailing white space characters of s
RECURSIVE TrailingWS(_)
TrailingWS(s) ==
  IF Len(s) > 0 /\ s[Len(s)] \in WhiteSpace
    THEN 1 + TrailingWS(SubSeq(s, 1, Len(s) - 1))
    ELSE 0

\* String.prototype.trim
trim(s) ==
  LET lead == SpanFrom(s, 1, WhiteSpace)
  IN  IF lead = Len(s) THEN <<>>
      ELSE SubSeq(s, lead + 1, Len(s) - TrailingWS(s))

\* String.prototype.indexOf(c): 0-based index of the first c, -1 when absent
RECURSIVE indexOfFrom(_, _, _)
indexOfFrom(s, c, p) ==
  IF p > Len(s) THEN -1
  ELSE IF s[p] = c THEN p - 1
  ELSE indexOfFrom(s, c, p + 1)

indexOf(s, c) == indexOfFrom(s, c, 1)

\* String.prototype.substring(start, end): both indices are clamped to
\* 0..length and swapped when start > end
substring(s, start, end) ==
  LET a == Min(Max(start, 0), Len(s))
      b == Min(Max(end, 0), Len(s))
  IN  SubSeq(s, Min(a, b) + 1, Max(a, b))

\* String.prototype.substring(start): to the end of the string
substringFrom(s, start) == substring(s, start, Len(s))

\* String.prototype.split(sep) for a one-character separator
RECURSIVE split(_, _)
split(s, sep) ==
  LET i == indexOf(s, sep)
  IN  IF i = -1 THEN <<s>>
      ELSE <<SubSeq(s, 1, i)>> \o split(Drop(s, i + 1), sep)

\* value of a run of decimal digits
RECURSIVE DigitsValue(_)
DigitsValue(ds) ==
  IF ds = <<>> THEN 0
  ELSE 10 * DigitsValue(SubSeq(ds, 1, Len(ds) - 1)) + DigitVal(ds[Len(ds)])

\* a JavaScript number as far as the program handles one: NaN or an integer
NaN == [nan |-> TRUE, n |-> 0]
Num(k) == [nan |-> FALSE, n |-> k]
isNaN(x) == x.nan

\* parseInt(s, 10): leading white space is skipped, then an optional sign,
\* then the longest run of digits; NaN when that run is empty
parseInt(s) ==
  LET t    == Drop(s, SpanFrom(s, 1, WhiteSpace))
      sign == IF Len(t) > 0 /\ t[1] \in {"+", "-"} THEN 1 ELSE 0
      nd   == SpanFrom(t, sign + 1, Digits)
      mag  == DigitsValue(SubSeq(t, sign + 1, sign + nd))
  IN  IF nd = 0 THEN NaN
      ELSE IF sign = 1 /\ t[1] = "-" THEN Num(0 - mag)
      ELSE Num(mag)


(***************************************************************************)
(* JSON.parse, for the JSON texts made of null, true, false, integers,     *)
(* strings without escapes, arrays and objects.  A JSON value is           *)
(* [t |-> its kind, v |-> its content].                                    *)
(***************************************************************************)
JNull == [t |-> "null", v |-> <<>>]
JBool(b) == [t |-> "boolean", v |-> <<b>>]
JNumber(k) == [t |-> "number", v |-> <<k>>]
JString(cs) == [t |-> "string", v |-> cs]
JArray(vs) == [t |-> "array", v |-> vs]
\* an object is the sequence of its members [k |-> key, v |-> value]
JObject(ms) == [t |-> "object", v |-> ms]

ParseFail == [ok |-> FALSE, pos |-> 0, val |-> JNull]
ParseOk(p, val) == [ok |-> TRUE, pos |-> p, val |-> val]

\* position of the first character at or after p that is not white space
SkipWS(s, p) == p + SpanFrom(s, p, WhiteSpace)

\* whether the characters of lit stand in s at position p
Looking(s, p, lit) == p + Len(lit) - 1 <= Len(s) /\ SubSeq(s, p, p + Len(lit) - 1) = lit

\* a string token at p: a quote, characters other than quote, backslash and
\* control characters, a quote
ParseString(s, p) ==
  IF ~(p <= Len(s) /\ s[p] = "\"") THEN ParseFail
  ELSE LET close == indexOfFrom(s, "\"", p + 1)
           body  == SubSeq(s, p + 1, close)
       IN  IF close = -1 \/ \E i \in 1..Len(body) : body[i] \in {"\\", "\t", "\r", "\n"}
             THEN ParseFail
             ELSE ParseOk(close + 2, JString(body))

\* an integer token at p: an optional minus, then 0 or a run of digits that
\* does not start with 0
ParseNumber(s, p) ==
  LET neg == IF p <= Len(s) /\ s[p] = "-" THEN 1 ELSE 0
      nd  == SpanFrom(s, p + neg, Digits)
      mag == DigitsValue(SubSeq(s, p + neg, p + neg + nd - 1))
  IN  IF nd = 0 \/ (nd > 1 /\ s[p + neg] = "0") THEN ParseFail
      ELSE ParseOk(p + neg + nd, JNumber(IF neg = 1 THEN 0 - mag ELSE mag))

RECURSIVE ParseValue(_, _), ParseElements(_, _, _), ParseMembers(_, _, _)

\* r, the value just read, with the white space after it consumed
AfterValue(s, r) == IF r.ok THEN ParseOk(SkipWS(s, r.pos), r.val) ELSE ParseFail

\* the value that starts at q, not a white space character
ValueAt(s, q) ==
  IF q > Len(s) THEN ParseFail
  ELSE IF Looking(s, q, <<"n", "u", "l", "l">>) THEN ParseOk(q + 4, JNull)
  ELSE IF Looking(s, q, <<"t", "r", "u", "e">>) THEN ParseOk(q + 4, JBool(TRUE))
  ELSE IF Looking(s, q, <<"f", "a", "l", "s", "e">>) THEN ParseOk(q + 5, JBool(FALSE))
  ELSE IF s[q] = "\"" THEN ParseString(s, q)
  ELSE IF s[q] = "[" THEN ParseElements(s, SkipWS(s, q + 1), <<>>)
  ELSE IF s[q] = "{" THEN ParseMembers(s, SkipWS(s, q + 1), <<>>)
  ELSE ParseNumber(s, q)

\* a value at or after p, white space before and after it consumed
ParseValue(s, p) == AfterValue(s, ValueAt(s, SkipWS(s, p)))

\* after the element r of an array: its end, or a comma and more elements
AfterElement(s, r, acc) ==
  IF ~r.ok \/ r.pos > Len(s) THEN ParseFail
  ELSE IF s[r.pos] = "]" THEN ParseOk(r.pos + 1, JArray(Append(acc, r.val)))
  ELSE IF s[r.pos] = "," THEN ParseElements(s, r.pos + 1, Append(acc, r.val))
  ELSE ParseFail

\* the elements of an array from p on, acc the elements read so far
ParseElements(s, p, acc) ==
  IF acc = <<>> /\ p <= Len(s) /\ s[p] = "]" THEN ParseOk(p + 1, JArray(<<>>))
  ELSE AfterElement(s, ParseValue(s, p), acc)

\* after the member k: r of an object: its end, or a comma and more members
AfterMember(s, k, r, acc) ==
  IF ~r.ok \/ r.pos > Len(s) THEN ParseFail
  ELSE IF s[r.pos] = "}"
    THEN ParseOk(r.pos + 1, JObject(Append(acc, [k |-> k.val.v, v |-> r.val])))
  ELSE IF s[r.pos] = ","
    THEN ParseMembers(s, SkipWS(s, r.pos + 1), Append(acc, [k |-> k.val.v, v |-> r.val]))
  ELSE ParseFail

\* after the key k of a member: a colon and a value
AfterKey(s, k, acc) ==
  IF k.ok /\ SkipWS(s, k.pos) <= Len(s) /\ s[SkipWS(s, k.pos)] = ":"
    THEN AfterMember(s, k, ParseValue(s, SkipWS(s, k.pos) + 1), acc)
    ELSE ParseFail

\* the members of an object from p on, acc the members read so far
ParseMembers(s, p, acc) ==
  IF acc = <<>> /\ p <= Len(s) /\ s[p] = "}" THEN ParseOk(p + 1, JObject(<<>>))
  ELSE AfterKey(s, ParseString(s, p), acc)

\* JSON.parse(s): [ok |-> FALSE] stands for the SyntaxError it throws
JSONparse(s) ==
  LET r == ParseValue(s, 1)
  IN  IF r.ok /\ r.pos = Len(s) + 1 THEN [ok |-> TRUE, val |-> r.val]
      ELSE [ok |-> FALSE, val |-> JNull]

\* typeof x, for a parsed JSON value
typeof(x) == IF x.t \in {"null", "array", "object"} THEN "object" ELSE x.t

\* Array.isArray(x)
isArray(x) == x.t = "array"

\* key in x, for an object x
HasKey(x, key) == \E i \in 1..Len(x.v) : x.v[i].k = key

\* x[key] for an object x holding the key: the last member of that name
GetKey(x, key) ==
  LET i == CHOOSE j \in 1..Len(x.v) :
             x.v[j].k = key /\ \A l \in (j + 1)..Len(x.v) : x.v[l].k # key
  IN  x.v[i].v

(***************************************************************************)
(* The inputs of the model.                                                *)
(***************************************************************************)
\* 10:{"id":"a"}: score 10, id "a"
LineA == <<"1", "0", ":", "{", "\"", "i", "d", "\"", ":", "\"", "a", "\"", "}">>
\*  -3 : {"id":2} : score -3, id 2, blanks around both tokens
LineB == <<" ", "-", "3", " ", ":", " ", "{", "\"", "i", "d", "\"", ":", "2", "}", " ">>
\* 10:{"id":null}: score 10 again (a tie with LineA), id null
LineC == <<"1", "0", ":", "{", "\"", "i", "d", "\"", ":", "n", "u", "l", "l", "}">>
\* 20x:{"k":0,"id":[4]}: score 20 by prefix parsing, id [4]
LineD == <<"2", "0", "x", ":", "{", "\"", "k", "\"", ":", "0", ",", "\"", "i", "d", "\"", ":", "[", "4", "]", "}">>
\* x:{: no integer prefix (and a record that is no JSON)
LineBadScore == <<"x", ":", "{">>
\* 5:{id}: the record is not JSON
LineBadJSON == <<"5", ":", "{", "i", "d", "}">>
\* 5:[1]: the record is an array (which also has no id)
LineBadShape == <<"5", ":", "[", "1", "]">>
\* 5:{"n":1}: an object without id
LineNoId == <<"5", ":", "{", "\"", "n", "\"", ":", "1", "}">>
\* 42: no colon, a leading integer
LineNoColon == <<"4", "2">>
\* ab: no colon, no leading integer
LineNoColonWord == <<"a", "b">>
\* '': empty
LineEmpty == <<>>
\* ' \r': white space only
LineBlank == <<" ", "\r">>

ValidLines == {LineA, LineB, LineC, LineD}
InvalidLines ==
  {LineBadScore, LineBadJSON, LineBadShape, LineNoId, LineNoColon, LineNoColonWord}
BlankLines == {LineEmpty, LineBlank}
LinePool == ValidLines \cup InvalidLines \cup BlankLines

\* the sequences of at most n elements of set
RECURSIVE SeqsUpTo(_, _)
SeqsUpTo(set, n) ==
  IF n = 0 THEN {<<>>}
  ELSE LET shorter == SeqsUpTo(set, n - 1)
       IN  shorter \cup {Append(q, x) : q \in {r \in shorter : Len(r) = n - 1}, x \in set}

\* the lines joined by newline characters
RECURSIVE Join(_)
Join(ls) ==
  IF ls = <<>> THEN <<>>
  ELSE IF Len(ls) = 1 THEN ls[1]
  ELSE ls[1] \o <<"\n">> \o Join(Tail(ls))

\* the contents a file may have: at most MaxLines lines of the pool
Contents == {Join(ls) : ls \in SeqsUpTo(LinePool, MaxLines)}

\* the second command-line argument
CountArgs == {<<"1">>, <<"2">>, <<"5">>, <<"0">>, <<"-", "1">>, <<"x">>}

\* process.argv.slice(2): none, one, two or three arguments
ArgVectors ==
  {<<>>, <<"file">>} \cup {<<"file", c>> : c \in CountArgs}
    \cup {<<"file", c, <<"z">> >> : c \in {<<"2">>, <<"x">>}}

(***************************************************************************)
(* The state of a run.                                                     *)
(***************************************************************************)
VARIABLES
  args,            \* process.argv.slice(2)
  fileError,       \* the error code fs.readFile reports for the path, "" for none
  data,            \* the content of the file, when it can be read
  pc,              \* where the run stands
  count,           \* main's count, once parsed
  lines,           \* parseDataFile's lines
  idx,             \* 1-based position of lines.map in lines
  records,         \* the array of { score, record } being built, then main's records
  highestRecords,  \* main's highestRecords
  stdout,          \* the values printed by console.log, in order
  stderr,          \* the messages printed by console.error, in order
  exitCodes        \* the codes process.exit was called with, in order

vars == <<args, fileError, data, pc, count, lines, idx, records, highestRecords,
          stdout, stderr, exitCodes>>

\* the messages of console.error
UsageError == "Usage: node score.js <data_file> <count>"
InvalidCount == "Invalid count value"
FileNotFound == "File not found"
OtherIOError == "An error occurred:"
InvalidScore == "Invalid score: not an integer"
InvalidRecordJSON == "Invalid record: not a valid JSON dictionary"
InvalidRecordShape == "Invalid record: not a JSON dictionary"
InvalidRecordMissingId == "Invalid record: missing \"id\" field"

ID == <<"i", "d">>

(***************************************************************************)
(* parseDataFile and validateScoreAndRecord.                               *)
(***************************************************************************)
\* Array.prototype.filter(line => line !== '')
RECURSIVE filterNonEmpty(_)
filterNonEmpty(ls) ==
  IF ls = <<>> THEN <<>>
  ELSE IF ls[1] # <<>> THEN <<ls[1]>> \o filterNonEmpty(Tail(ls))
  ELSE filterNonEmpty(Tail(ls))

\* a faulty Lines, for comparison: the empty segments dropped before the
\* segments are trimmed
LinesFilterFirst(content) ==
  LET segs == filterNonEmpty(split(content, "\n"))
  IN  [i \in 1..Len(segs) |-> trim(segs[i])]

\* data.split('\n').map(line => line.trim()).filter(line => line !== '')
Lines(content) ==
  LET segs == split(content, "\n")
  IN  filterNonEmpty([i \in 1..Len(segs) |-> trim(segs[i])])

\* a faulty score token, for comparison: the whole line when it has no colon
scoreStrWholeLine(line) ==
  IF indexOf(line, ":") = -1 THEN trim(line)
  ELSE trim(substring(line, 0, indexOf(line, ":")))

\* the score token of a line
scoreStrOf(line) == trim(substring(line, 0, indexOf(line, ":")))

\* the record token of a line
recordStrOf(line) == trim(substringFrom(line, indexOf(line, ":") + 1))

\* a faulty validation, for comparison: the record checked before the score
validateRecordFirst(scoreStr, recordStr) ==
  LET score  == parseInt(scoreStr)
      parsed == JSONparse(recordStr)
      record == parsed.val
      Exit(msg) == [exit |-> msg, score |-> 0, record |-> JNull]
  IN  IF ~parsed.ok THEN Exit(InvalidRecordJSON)
      ELSE IF typeof(record) # "object" \/ isArray(record) \/ record = JNull
        THEN Exit(InvalidRecordShape)
      ELSE IF ~HasKey(record, ID) THEN Exit(InvalidRecordMissingId)
      ELSE IF isNaN(score) THEN Exit(InvalidScore)
      ELSE [exit |-> "", score |-> score.n, record |-> record]

\* validateScoreAndRecord: the checks in the order of the code.  exit is the
\* message of the check that called process.exit(2), "" when none did
validateScoreAndRecord(scoreStr, recordStr) ==
  LET score  == parseInt(scoreStr)
      parsed == JSONparse(recordStr)
      record == parsed.val
      Exit(msg) == [exit |-> msg, score |-> 0, record |-> JNull]
  IN  IF isNaN(score) THEN Exit(InvalidScore)
      ELSE IF ~parsed.ok THEN Exit(InvalidRecordJSON)
      ELSE IF typeof(record) # "object" \/ isArray(record) \/ record = JNull
        THEN Exit(InvalidRecordShape)
      ELSE IF ~HasKey(record, ID) THEN Exit(InvalidRecordMissingId)
      ELSE [exit |-> "", score |-> score.n, record |-> record]

(***************************************************************************)
(* getHighestRecords.                                                      *)
(***************************************************************************)
\* a faulty comparator, for comparison: ascending
compareAscending(a, b) == a.score - b.score

\* the comparator given to sort
compareFn(a, b) == b.score - a.score

\* a faulty insertion, for comparison: x put before the elements it ties with,
\* which makes the sort unstable
RECURSIVE InsertBeforeEqual(_, _)
InsertBeforeEqual(arr, x) ==
  IF arr = <<>> THEN <<x>>
  ELSE IF compareFn(arr[1], x) >= 0 THEN <<x>> \o arr
  ELSE <<arr[1]>> \o InsertBeforeEqual(Tail(arr), x)

\* arr, sorted, with x put after every element that does not have to follow it
RECURSIVE InsertSorted(_, _)
InsertSorted(arr, x) ==
  IF arr = <<>> THEN <<x>>
  ELSE IF compareFn(arr[1], x) > 0 THEN <<x>> \o arr
  ELSE <<arr[1]>> \o InsertSorted(Tail(arr), x)

\* Array.prototype.sort(compareFn): a stable sort (ECMAScript 2019), which
\* leaves its result in the array it is called on
RECURSIVE sort(_)
sort(arr) ==
  IF arr = <<>> THEN <<>>
  ELSE InsertSorted(sort(SubSeq(arr, 1, Len(arr) - 1)), arr[Len(arr)])

\* a faulty slice, for comparison: the end index taken as inclusive
sliceInclusive(arr, start, end) ==
  LET from == IF start < 0 THEN Max(Len(arr) + start, 0) ELSE Min(start, Len(arr))
      to   == IF end < 0 THEN Max(Len(arr) + end, 0) ELSE Min(end, Len(arr))
  IN  SubSeq(arr, from + 1, Min(to + 1, Len(arr)))

\* Array.prototype.slice(start, end): a negative index counts from the end
slice(arr, start, end) ==
  LET from == IF start < 0 THEN Max(Len(arr) + start, 0) ELSE Min(start, Len(arr))
      to   == IF end < 0 THEN Max(Len(arr) + end, 0) ELSE Min(end, Len(arr))
  IN  SubSeq(arr, from + 1, to)

\* record => ({ score: record.score, record: record.record.id })
project(r) == [score |-> r.score, record |-> GetKey(r.record, ID)]

\* the value getHighestRecords returns
getHighestRecords(recs, n) ==
  LET top == slice(sort(recs), 0, n)
  IN  [i \in 1..Len(top) |-> project(top[i])]

(***************************************************************************)
(* The run of main.                                                        *)
(***************************************************************************)
\* console.error(msg); process.exit(code)
Fail(msg, code) ==
  /\ stderr' = Append(stderr, msg)
  /\ exitCodes' = Append(exitCodes, code)
  /\ pc' = "exited"

Init ==
  /\ args \in ArgVectors
  /\ \/ fileError = "" /\ data \in Contents
     \/ fileError \in {"ENOENT", "EISDIR"} /\ data = <<>>
  /\ pc = "main"
  /\ count = 0
  /\ lines = <<>>
  /\ idx = 0
  /\ records = <<>>
  /\ highestRecords = <<>>
  /\ stdout = <<>>
  /\ stderr = <<>>
  /\ exitCodes = <<>>

\* main: the number of arguments
MainArgs ==
  /\ pc = "main"
  /\ IF Len(args) # 2
       THEN Fail(UsageError, 1)
       ELSE /\ pc' = "count"
            /\ UNCHANGED <<stderr, exitCodes>>
  /\ UNCHANGED <<args, fileError, data, count, lines, idx, records, highestRecords, stdout>>

\* a faulty MainCount, for comparison: the count is not checked before the
\* file is read
MainCountUnchecked ==
  /\ pc = "count"
  /\ count' = parseInt(args[2]).n
  /\ pc' = "readFile"
  /\ UNCHANGED <<args, fileError, data, lines, idx, records, highestRecords, stdout,
                 stderr, exitCodes>>

\* main: the count, then the call of parseDataFile, which starts fs.readFile
MainCount ==
  /\ pc = "count"
  /\ LET c == parseInt(args[2])
     IN  IF isNaN(c) \/ c.n <= 0
           THEN Fail(InvalidCount, 2) /\ UNCHANGED count
           ELSE /\ count' = c.n
                /\ pc' = "readFile"
                /\ UNCHANGED <<stderr, exitCodes>>
  /\ UNCHANGED <<args, fileError, data, lines, idx, records, highestRecords, stdout>>

\* the callback of fs.readFile: reject on an error, else the lines
ReadFile ==
  /\ pc = "readFile"
  /\ IF fileError # ""
       THEN pc' = "catch" /\ UNCHANGED <<lines, idx>>
       ELSE /\ lines' = Lines(data)
            /\ idx' = 1
            /\ pc' = "map"
  /\ UNCHANGED <<args, fileError, data, count, records, highestRecords, stdout, stderr, exitCodes>>

\* lines.map: the callback on the next line
MapLine ==
  /\ pc = "map"
  /\ idx <= Len(lines)
  /\ LET line == lines[idx]
         r    == validateScoreAndRecord(scoreStrOf(line), recordStrOf(line))
     IN  IF r.exit # ""
           THEN Fail(r.exit, 2) /\ UNCHANGED <<idx, records>>
           ELSE /\ records' = Append(records, [score |-> r.score, record |-> r.record])
                /\ idx' = idx + 1
                /\ UNCHANGED <<pc, stderr, exitCodes>>
  /\ UNCHANGED <<args, fileError, data, count, lines, highestRecords, stdout>>

\* Promise.all(linePromises) resolves with the records, and main's await returns
Resolve ==
  /\ pc = "map"
  /\ idx > Len(lines)
  /\ pc' = "rank"
  /\ UNCHANGED <<args, fileError, data, count, lines, idx, records, highestRecords,
                 stdout, stderr, exitCodes>>

\* main: getHighestRecords(records, count), whose sort reorders records itself
MainRank ==
  /\ pc = "rank"
  /\ highestRecords' = getHighestRecords(records, count)
  /\ records' = sort(records)
  /\ pc' = "print"
  /\ UNCHANGED <<args, fileError, data, count, lines, idx, stdout, stderr, exitCodes>>

\* main: console.log of the result (stdout holds the array given to
\* JSON.stringify), then process.exit(0)
MainPrint ==
  /\ pc = "print"
  /\ stdout' = Append(stdout, highestRecords)
  /\ exitCodes' = Append(exitCodes, 0)
  /\ pc' = "exited"
  /\ UNCHANGED <<args, fileError, data, count, lines, idx, records, highestRecords, stderr>>

\* a faulty catch clause, for comparison: every error ends the run with 2
MainCatchAlways2 ==
  /\ pc = "catch"
  /\ Fail(OtherIOError, 2)
  /\ UNCHANGED <<args, fileError, data, count, lines, idx, records, highestRecords, stdout>>

\* main: the catch clause
MainCatch ==
  /\ pc = "catch"
  /\ IF fileError = "ENOENT" THEN Fail(FileNotFound, 1) ELSE Fail(OtherIOError, 2)
  /\ UNCHANGED <<args, fileError, data, count, lines, idx, records, highestRecords, stdout>>

Next ==
  \/ MainArgs
  \/ MainCount
  \/ ReadFile
  \/ MapLine
  \/ Resolve
  \/ MainRank
  \/ MainPrint
  \/ MainCatch

Spec == Init /\ [][Next]_vars

(***************************************************************************)
(* getHighestRecords called directly, on any array of valid records and    *)
(* any count, positive or not.                                             *)
(***************************************************************************)
\* the { score, record } parseDataFile makes of a valid line
recordOf(line) ==
  LET r == validateScoreAndRecord(scoreStrOf(trim(line)), recordStrOf(trim(line)))
  IN  [score |-> r.score, record |-> r.record]

ValidRecords == {recordOf(l) : l \in ValidLines}

InitRanker ==
  /\ args = <<>>
  /\ fileError = ""
  /\ data = <<>>
  /\ pc = "call"
  /\ count \in (0 - MaxCount)..MaxCount
  /\ lines = <<>>
  /\ idx = 0
  /\ records \in SeqsUpTo(ValidRecords, MaxLines)
  /\ highestRecords = <<>>
  /\ stdout = <<>>
  /\ stderr = <<>>
  /\ exitCodes = <<>>

\* highestRecords = getHighestRecords(records, count)
DirectCall ==
  /\ pc = "call"
  /\ highestRecords' = getHighestRecords(records, count)
  /\ records' = sort(records)
  /\ pc' = "returned"
  /\ UNCHANGED <<args, fileError, data, count, lines, idx, stdout, stderr, exitCodes>>

NextRanker == DirectCall

SpecRanker == InitRanker /\ [][NextRanker]_vars

(***************************************************************************)
(* What the properties speak of, stated on the input itself: the lines of  *)
(* the file as written, and what each line of the pool is.                 *)
(***************************************************************************)
\* the lines of the file, blank ones included
SourceLines == split(data, "\n")

IsBlank(l) == \A i \in 1..Len(l) : l[i] \in {" ", "\t", "\r"}

HasColon(l) == \E i \in 1..Len(l) : l[i] = ":"

\* the lines of the file that are not blank, in input order
NonBlankSource == SelectSeq(SourceLines, LAMBDA l : ~IsBlank(l))

IsValidLine(l) == l \in ValidLines

\* whether every line of src is valid
AllValidIn(src) == \A i \in 1..Len(src) : IsValidLine(src[i])

AllValid == AllValidIn(NonBlankSource)

\* the score a valid line of the pool carries
PoolScore(l) ==
  CASE l = LineA -> 10 [] l = LineB -> 0 - 3 [] l = LineC -> 10 [] l = LineD -> 20

\* the id a valid line of the pool carries
PoolId(l) ==
  CASE l = LineA -> JString(<<"a">>)
    [] l = LineB -> JNumber(2)
    [] l = LineC -> JNull
    [] l = LineD -> JArray(<<JNumber(4)>>)

\* the first check an invalid line of the pool fails
PoolError(l) ==
  CASE l = LineBadScore -> InvalidScore
    [] l = LineBadJSON -> InvalidRecordJSON
    [] l = LineBadShape -> InvalidRecordShape
    [] l = LineNoId -> InvalidRecordMissingId
    [] l = LineNoColon -> InvalidScore
    [] l = LineNoColonWord -> InvalidScore

\* 1-based position in src of its first invalid line
FirstInvalidIn(src) ==
  CHOOSE i \in 1..Len(src) :
    ~IsValidLine(src[i]) /\ \A j \in 1..(i - 1) : IsValidLine(src[j])

\* whether the command line has two arguments, the second a positive integer
CountOK == Len(args) = 2 /\ args[2] \in {<<"1">>, <<"2">>, <<"5">>}

\* the count the command line asks for
RequestedCount == CASE args[2] = <<"1">> -> 1 [] args[2] = <<"2">> -> 2 [] args[2] = <<"5">> -> 5

\* whether the run gets as far as validating lines
ReachesValidation == CountOK /\ fileError = ""

\* whether the run has exited
Exited == pc = "exited"

\* position of line i of src in the descending order of scores in which lines
\* of equal score keep their input order
RankOf(src, i) ==
  1 + Cardinality({j \in 1..Len(src) : PoolScore(src[j]) > PoolScore(src[i])})
    + Cardinality({j \in 1..(i - 1) : PoolScore(src[j]) = PoolScore(src[i])})

\* the first n entries of that order, each as { score, record: id }
ExpectedTop(src, n) ==
  [k \in 1..Min(n, Len(src)) |->
     LET l == src[CHOOSE i \in 1..Len(src) : RankOf(src, i) = k]
     IN  [score |-> PoolScore(l), record |-> PoolId(l)]]

\* the { score, id } pairs of the lines of src, in input order
InInputOrder(src) == [k \in 1..Len(src) |-> [score |-> PoolScore(src[k]), id |-> PoolId(src[k])]]

\* the { score, id } pairs of an array of records
ScoreIds(recs) ==
  [k \in 1..Len(recs) |-> [score |-> recs[k].score, id |-> GetKey(recs[k].record, ID)]]

(***************************************************************************)
(* The properties.                                                         *)
(***************************************************************************)

\* C1: a run on an input whose non-blank lines are all valid, with a positive
\* count, exits with code 0 and prints one array, whose length is
\* min(count, number of valid lines).
C1_OutputLength ==
  (Exited /\ ReachesValidation /\ AllValid) =>
    /\ exitCodes = <<0>>
    /\ Len(stdout) = 1
    /\ Len(stdout[1]) = Min(RequestedCount, Len(NonBlankSource))

\* a run that printed fewer records than the input holds, and one that printed
\* fewer than the count asks for, both with exit code 0
C1_Witness ==
  /\ Exited /\ ReachesValidation /\ AllValid
  /\ exitCodes = <<0>>
  /\ RequestedCount = 2
  /\ Len(NonBlankSource) = 3
  /\ Len(stdout[1]) = 2

\* C2: the scores of the printed array never increase from one position to
\* the next.
C2_NonIncreasing ==
  \A n \in 1..Len(stdout) : \A i, j \in 1..Len(stdout[n]) :
    i < j => stdout[n][i].score >= stdout[n][j].score

\* a printed array of three different scores whose input had them in another order
C2_Witness ==
  /\ Len(stdout) = 1
  /\ Len(stdout[1]) = 3
  /\ stdout[1][1].score > stdout[1][2].score
  /\ stdout[1][2].score > stdout[1][3].score
  /\ NonBlankSource = <<LineB, LineD, LineA>>

\* the exit code of a run, by the first check that fails in the order
\* argument count, count, file read, lines
ExpectedExit ==
  IF Len(args) # 2 THEN 1
  ELSE IF ~CountOK THEN 2
  ELSE IF fileError = "ENOENT" THEN 1
  ELSE IF fileError # "" THEN 2
  ELSE IF ~AllValid THEN 2
  ELSE 0

\* how far main has come
PcRank ==
  CASE pc = "main" -> 0 [] pc = "count" -> 1 [] pc = "readFile" -> 2 [] pc = "map" -> 3
    [] pc = "catch" -> 4 [] pc = "rank" -> 4 [] pc = "print" -> 5 [] pc = "exited" -> 6

\* the messages of validateScoreAndRecord
ValidationErrors ==
  {InvalidScore, InvalidRecordJSON, InvalidRecordShape, InvalidRecordMissingId}

\* C3 as stated: exactly one exit code of {0, 1, 2}; 1 whenever the argument
\* count is not 2 or the file does not exist; 2 whenever a line fails
\* validation, the count argument is invalid or non-positive, or another read
\* error occurs; 0 only when none of these happen, and only then is a result
\* printed.
C3_AsStated ==
  Exited =>
    /\ Len(exitCodes) = 1
    /\ exitCodes[1] \in {0, 1, 2}
    /\ (Len(args) # 2 \/ fileError = "ENOENT") => exitCodes[1] = 1
    /\ (\/ \E i \in 1..Len(stderr) : stderr[i] \in ValidationErrors \cup {OtherIOError}
        \/ Len(args) = 2 /\ ~CountOK) => exitCodes[1] = 2
    /\ exitCodes[1] = 0 =>
         /\ Len(args) = 2 /\ CountOK /\ fileError = ""
         /\ stderr = <<>>
    /\ stdout # <<>> <=> exitCodes[1] = 0

\* the exit codes of a run: none while it runs, one once it has exited, that
\* of the first check that fails
C3_Codes ==
  /\ Exited <=> Len(exitCodes) = 1
  /\ ~Exited =>
       /\ exitCodes = <<>> /\ stdout = <<>>
       /\ pc \in {"main", "count", "readFile", "catch", "rank", "print"}
            \/ (pc = "map" /\ idx \in 1..(Len(lines) + 1))
  /\ Exited =>
       /\ exitCodes[1] = ExpectedExit
       /\ stdout # <<>> <=> exitCodes[1] = 0

\* a step of the run takes main further, or lines.map to its next line
Advances ==
  \/ PcRank' > PcRank
  \/ pc' = pc /\ pc = "map" /\ idx' = idx + 1 /\ idx' <= Len(lines) + 1

\* C3, amended: every step takes the run further, so it ends; a run that has
\* not exited stands at a step it can take, a run that has exited called
\* process.exit once, with the code of the first check that fails in the
\* order argument count (1), count (2), file read (1 when the file does not
\* exist, 2 for another error), lines (2), and with 0 when none fails; a
\* result is printed exactly by the runs that exit with 0.
C3_ExitCodes == []C3_Codes /\ [][Advances]_vars

\* a run on a missing file with an invalid count: it exits with 2, not 1
C3_Witness ==
  /\ Exited
  /\ Len(args) = 2 /\ args[2] = <<"x">>
  /\ fileError = "ENOENT"
  /\ exitCodes = <<2>>

\* C4: on an input with invalid lines, the run stops at the first of them in
\* input order, with the message of the first check that line fails and exit
\* code 2; no later line is validated, getHighestRecords is never called and
\* nothing is printed.
C4_FailFast ==
  LET src   == NonBlankSource
      first == FirstInvalidIn(src)
  IN  (ReachesValidation /\ ~AllValidIn(src)) =>
        /\ pc \notin {"rank", "print"}
        /\ highestRecords = <<>>
        /\ stdout = <<>>
        /\ idx <= first
        /\ Len(records) <= first - 1
        /\ Exited =>
             /\ idx = first
             /\ Len(records) = first - 1
             /\ stderr = <<PoolError(src[first])>>
             /\ exitCodes = <<2>>

\* a run stopped at its second line, an array, with a line after it that
\* would fail another check
C4_Witness ==
  /\ Exited /\ ReachesValidation
  /\ NonBlankSource = <<LineA, LineBadShape, LineBadScore>>
  /\ idx = 2
  /\ stderr = <<InvalidRecordShape>>

\* C5: the printed array is the first min(count, n) entries of the input in
\* descending order of score, entries of equal score in input order, each as
\* { score, record: id }; and no line left out has a higher score than a
\* line printed.
C5_StableTopN ==
  \A n \in 1..Len(stdout) :
    LET src == NonBlankSource
    IN  /\ stdout[n] = ExpectedTop(src, RequestedCount)
        /\ \A i \in 1..Len(src) : \A k \in 1..Len(stdout[n]) :
             RankOf(src, i) > Len(stdout[n]) => PoolScore(src[i]) <= stdout[n][k].score

\* two lines of score 10 after a line of score -3, count 2: both lines of
\* score 10 are printed, in input order
C5_Witness ==
  /\ Len(stdout) = 1
  /\ NonBlankSource = <<LineB, LineC, LineA>>
  /\ RequestedCount = 2
  /\ stdout[1] = <<[score |-> 10, record |-> JNull], [score |-> 10, record |-> JString(<<"a">>)]>>

\* C6: what parseDataFile makes of the file, and how the run ends, depend on
\* the lines that are not blank alone: lines holds them trimmed, the records
\* are theirs in input order, the exit code and the message are those of the
\* first invalid one of them, if any.
C6_BlankLinesIgnored ==
  LET src == NonBlankSource
  IN  ReachesValidation =>
        /\ pc \in {"map", "rank", "print", "exited"} =>
             lines = [k \in 1..Len(src) |-> trim(src[k])]
        /\ pc = "rank" => ScoreIds(records) = InInputOrder(src)
        /\ Exited =>
             IF AllValidIn(src)
               THEN exitCodes = <<0>> /\ stderr = <<>>
               ELSE /\ exitCodes = <<2>>
                    /\ stderr = <<PoolError(src[FirstInvalidIn(src)])>>

\* a file of an empty line, a valid line and a line of white space: one record
C6_Witness ==
  /\ Exited /\ ReachesValidation
  /\ SourceLines = <<LineEmpty, LineB, LineBlank>>
  /\ exitCodes = <<0>>
  /\ Len(stdout[1]) = 1

\* the line lines.map is at, or stopped at
AtLine == pc \in {"map", "exited"} /\ ReachesValidation /\ idx <= Len(lines)

\* C7 as stated: of a line without a colon both tokens are the whole line, so
\* one with a leading integer passes the score check and only one without
\* fails with the score message.
C7_AsStated ==
  (AtLine /\ ~HasColon(lines[idx])) =>
    /\ scoreStrOf(lines[idx]) = lines[idx]
    /\ recordStrOf(lines[idx]) = lines[idx]
    /\ (Exited /\ ~isNaN(parseInt(lines[idx]))) => stderr # <<InvalidScore>>

\* C7, amended: of a line without a colon the score token is empty and the
\* record token is the whole line, so every such line, with a leading integer
\* or without, fails the score check: the run exits with 2 and the score
\* message.
C7_NoColon ==
  (AtLine /\ ~HasColon(lines[idx])) =>
    /\ scoreStrOf(lines[idx]) = <<>>
    /\ recordStrOf(lines[idx]) = lines[idx]
    /\ Exited => stderr = <<InvalidScore>> /\ exitCodes = <<2>>

\* a run stopped at the line 42
C7_Witness ==
  /\ Exited /\ AtLine
  /\ lines[idx] = LineNoColon
  /\ stderr = <<InvalidScore>>

\* C8 as stated: a direct call with a count of zero or less returns the empty
\* array.
C8_EmptyForNonPositive ==
  (pc = "returned" /\ count <= 0) => highestRecords = <<>>

\* C9 as stated: the call of getHighestRecords leaves the array it is given as
\* it was.
C9_InputUnchanged == [][pc = "rank" => records' = records]_vars

\* C10: the checks come in the order argument count, count, file read, lines,
\* and the first that fails ends the run: with another number of arguments
\* than 2 the count is never parsed; with an invalid count the file is never
\* read, whether it exists or not; with an unreadable file no line is
\* validated.
C10_CheckOrder ==
  /\ Len(args) # 2 =>
       /\ pc \in {"main", "exited"}
       /\ count = 0
       /\ Exited => exitCodes = <<1>> /\ stderr = <<UsageError>>
  /\ (Len(args) = 2 /\ ~CountOK) =>
       /\ pc \in {"main", "count", "exited"}
       /\ lines = <<>> /\ idx = 0
       /\ Exited => exitCodes = <<2>> /\ stderr = <<InvalidCount>>
  /\ (CountOK /\ fileError # "") =>
       /\ pc \in {"main", "count", "readFile", "catch", "exited"}
       /\ lines = <<>> /\ idx = 0
       /\ Exited =>
            IF fileError = "ENOENT"
              THEN exitCodes = <<1>> /\ stderr = <<FileNotFound>>
              ELSE exitCodes = <<2>> /\ stderr = <<OtherIOError>>
  /\ (ReachesValidation /\ Exited /\ stderr # <<>>) =>
       /\ Len(stderr) = 1 /\ stderr[1] \in ValidationErrors
       /\ exitCodes = <<2>>

\* a run with a count of 0 on a file that does not exist: code 2, the count's
C10_Witness ==
  /\ Exited
  /\ args = <<"file", <<"0">>>>
  /\ fileError = "ENOENT"
  /\ exitCodes = <<2>>
  /\ stderr = <<InvalidCount>>

=============================================================================
